---- MODULE Spec2Model ----
(***************************************************************************)
(* A model of the compensation calculator: the Exchange Adapter            *)
(* (analyzeCompensation, in its three copies kept in the repository), the  *)
(* App component that calls it (handleAnalysis, handleReset and the        *)
(* conditional render), and the external generation service seen through   *)
(* generateContent.                                                        *)
(*                                                                         *)
(* JavaScript values are tagged records, so that NaN, undefined and null   *)
(* are values distinct from every number and arithmetic on them follows    *)
(* the language.  Amounts are whole numbers: the model does not cover      *)
(* binary floating-point rounding.                                         *)
(***************************************************************************)
EXTENDS Integers, Sequences, FiniteSets, TLC

VARIABLES
    apiKey,       \* process.env.API_KEY, fixed for the life of the process
    adapter,      \* which copy of services/geminiService the build links
    isLoading,    \* App state (useState)
    results,      \* App state: CompensationInsights | null
    userProfile,  \* App state: UserProfile | null
    error,        \* App state: string | null
    pending,      \* handleAnalysis invocations suspended at their await
    event,        \* the handler that ran in the latest step, with what it saw
    arg,          \* adapter specification: the Profile handed to the adapter
    out,          \* adapter specification: what the adapter computed from arg
    dashboard,    \* which copy of components/ResultsDashboard the build links
    props,        \* dashboard specification: the props of ResultsDashboard
    derived,      \* dashboard specification: the figures it derived from props
    formProfile,  \* SalaryForm state: profile
    formMode,     \* SalaryForm state: mode
    isOpen,       \* FeedbackModal prop: whether its parent shows it
    step,         \* FeedbackModal state: 'form' | 'submitting' | 'success'
    rating,       \* FeedbackModal state
    email,        \* FeedbackModal state, a text as its sequence of characters
    missingFields,\* FeedbackModal state
    improvements, \* FeedbackModal state
    inFlight,     \* handleSubmit invocations suspended at an await
    timers        \* reset callbacks scheduled by handleClose and not yet run

vars == <<apiKey, adapter, isLoading, results, userProfile, error, pending,
          event, arg, out, dashboard, props, derived, formProfile, formMode,
          isOpen, step, rating, email, missingFields, improvements, inFlight,
          timers>>

appVars == <<isLoading, results, userProfile, error, pending, event>>

appStateVars == <<isLoading, results, userProfile, error, pending>>

adapterVars == <<arg, out>>

dashboardVars == <<dashboard, props, derived>>

formVars == <<formProfile, formMode>>

feedbackVars == <<isOpen, step, rating, email, missingFields, improvements,
                  inFlight, timers>>

-----------------------------------------------------------------------------
(* Bounds of the model.                                                    *)

\* Largest amount (and largest year count) a numeric Profile field takes.
MaxAmount == 2
\* Number of numeric Profile fields that differ from the Profile's base value.
MaxOverrides == 1
\* Cap on suspended handleAnalysis invocations (reached only if the UI lets
\* a second submission in).
MaxPending == 2

-----------------------------------------------------------------------------
(* JavaScript values.                                                      *)

Num(n) == [t |-> "number", v |-> n]
NaN == [t |-> "NaN"]
Undefined == [t |-> "undefined"]
Null == [t |-> "null"]
Str(s) == [t |-> "string", s |-> s]
Bool(b) == [t |-> "boolean", b |-> b]
Obj(f) == [t |-> "object", o |-> f]
Arr(a) == [t |-> "array", a |-> a]

\* typeof val === 'number' (NaN is of type number).
TypeofNumber(val) == val.t \in {"number", "NaN"}

\* isNaN on a value of type number.
IsNaN(val) == val.t = "NaN"

\* JavaScript truthiness: what `!x`, `x || d` and `if (x)` test.
Truthy(val) ==
    CASE val.t = "number" -> val.v # 0
      [] val.t = "string" -> val.s # ""
      [] val.t = "text" -> val.toks # <<>>
      [] val.t = "boolean" -> val.b
      [] val.t \in {"object", "array"} -> TRUE
      [] OTHER -> FALSE    \* NaN, undefined, null

\* x || d
OrElse(val, d) == IF Truthy(val) THEN val ELSE d

\* ToNumber, as applied by * and + to a non-string operand.
ToNumber(val) ==
    CASE val.t = "number" -> val
      [] val.t = "null" -> Num(0)
      [] val.t = "boolean" -> Num(IF val.b THEN 1 ELSE 0)
      [] OTHER -> NaN      \* NaN, undefined

JsMul(a, b) ==
    LET x == ToNumber(a)
        y == ToNumber(b)
    IN  IF x.t = "number" /\ y.t = "number" THEN Num(x.v * y.v) ELSE NaN

JsAdd(a, b) ==
    LET x == ToNumber(a)
        y == ToNumber(b)
    IN  IF x.t = "number" /\ y.t = "number" THEN Num(x.v + y.v) ELSE NaN

-----------------------------------------------------------------------------
(* The Exchange Adapter: credential and numeric normalisation.             *)

\* A copy of getApiKey that turns the key into a string before testing it, so
\* that an absent key reads "undefined".
getApiKeyStringified(key) == IF key = Undefined THEN Str("undefined") ELSE key

\* getApiKey: the key, or "" when it is absent or empty.
getApiKey(key) == IF ~Truthy(key) THEN Str("") ELSE key

\* A copy of safeNum that forgets the isNaN test.
safeNumKeepsNaN(val) == IF TypeofNumber(val) THEN val ELSE Num(0)

\* safeNum: val when it is a number other than NaN, else 0.
safeNum(val) == IF TypeofNumber(val) /\ ~IsNaN(val) THEN val ELSE Num(0)

\* The locals analyzeCompensation computes before it builds the prompt.
Totals(profile) ==
    LET monthlyBase == safeNum(profile.monthlyBaseSalary)
        monthlyInc == safeNum(profile.monthlyIncentive)
        monthlyOver == safeNum(profile.monthlyOvertime)
        profitShare == safeNum(profile.annualProfitShare)
        festival == safeNum(profile.festivalBonus)
        pf == safeNum(profile.providentFund)
        grat == safeNum(profile.gratuity)
        annualBaseSalary == JsMul(monthlyBase, Num(12))
        annualIncentive == JsMul(monthlyInc, Num(12))
        annualOvertime == JsMul(monthlyOver, Num(12))
    IN  [annualBaseSalary |-> annualBaseSalary,
         annualIncentive |-> annualIncentive,
         annualOvertime |-> annualOvertime,
         profitShare |-> profitShare,
         festival |-> festival,
         pf |-> pf,
         grat |-> grat,
         totalComp |->
            JsAdd(JsAdd(JsAdd(JsAdd(JsAdd(JsAdd(annualBaseSalary,
                annualIncentive), profitShare), annualOvertime), festival),
                pf), grat)]

-----------------------------------------------------------------------------
(* The Exchange Adapter: the prompt.  A prompt is the template chosen and  *)
(* the values interpolated into it, slot by slot, before `${...}` turns    *)
(* each into text (NaN into "NaN", undefined into "undefined").            *)

\* The three copies of the adapter in the repository.
EntryAware == "unnamed/part_003"
Breakdown == "services/geminiService.ts"
SingleTemplate == "unnamed/part_002"
Adapters == {EntryAware, Breakdown, SingleTemplate}

\* unnamed/part_003, the entry-level template.
PromptEntry(profile) ==
    [template |-> "entry",
     slots |->
        [role |-> OrElse(profile.currentRole, Str("Not Specified")),
         education |-> OrElse(profile.education, Str("Not Specified")),
         skills |-> OrElse(profile.userSkills, Str("Not Specified")),
         projects |-> OrElse(profile.projectDetails, Str("None listed")),
         location |-> OrElse(profile.location, Str("Unknown")),
         industry |-> OrElse(profile.industry, Str("General")),
         currency |-> OrElse(profile.currency, Str("USD")),
         expectedSalary |-> OrElse(profile.expectedSalary, Num(0))]]

\* unnamed/part_003 (the experienced template) and unnamed/part_002 (its only
\* template) interpolate the same values.
PromptExperienced(profile) ==
    [template |-> "experienced",
     slots |->
        [role |-> OrElse(profile.currentRole, Str("Professional")),
         experience |-> safeNum(profile.yearsExperience),
         location |-> OrElse(profile.location, Str("Unknown")),
         industry |-> OrElse(profile.industry, Str("General")),
         currency |-> OrElse(profile.currency, Str("USD")),
         totalComp |-> Totals(profile).totalComp]]

\* profile.benefits.join(', '), or 'None listed'.
benefitsStr(profile) ==
    IF Len(profile.benefits) > 0
    THEN [t |-> "joined", a |-> profile.benefits]
    ELSE Str("None listed")

\* services/geminiService.ts: one template, with the itemised breakdown and
\* a task line that interpolates Profile fields as they are.
PromptBreakdown(profile) ==
    LET tot == Totals(profile)
    IN  [template |-> "breakdown",
         slots |->
            [role |-> OrElse(profile.currentRole, Str("Professional")),
             experience |-> safeNum(profile.yearsExperience),
             location |-> OrElse(profile.location, Str("Unknown")),
             industry |-> OrElse(profile.industry, Str("General")),
             currency |-> OrElse(profile.currency, Str("USD")),
             annualBaseSalary |-> tot.annualBaseSalary,
             annualIncentive |-> tot.annualIncentive,
             profitShare |-> tot.profitShare,
             annualOvertime |-> tot.annualOvertime,
             festival |-> tot.festival,
             pf |-> tot.pf,
             grat |-> tot.grat,
             totalComp |-> tot.totalComp,
             benefits |-> benefitsStr(profile),
             taskTotalComp |-> tot.totalComp,
             taskCurrency |-> profile.currency,
             taskRole |-> profile.currentRole,
             taskExperience |-> profile.yearsExperience,
             taskLocation |-> profile.location,
             taskNextLocation |-> profile.location]]

\* The prompt the linked copy of analyzeCompensation builds.
Prompt(copy, profile) ==
    CASE copy = EntryAware ->
            IF Truthy(profile.isEntryLevel)
            THEN PromptEntry(profile)
            ELSE PromptExperienced(profile)
      [] copy = SingleTemplate -> PromptExperienced(profile)
      [] copy = Breakdown -> PromptBreakdown(profile)

\* The slots that carry a numeric Profile field or a figure derived from one.
NumericSlots ==
    {"experience", "expectedSalary", "annualBaseSalary", "annualIncentive",
     "profitShare", "annualOvertime", "festival", "pf", "grat", "totalComp",
     "taskTotalComp", "taskExperience"}

-----------------------------------------------------------------------------
(* Profiles.                                                               *)

CompensationFields ==
    {"monthlyBaseSalary", "monthlyIncentive", "monthlyOvertime",
     "annualProfitShare", "festivalBonus", "providentFund", "gratuity"}

NumericFields == CompensationFields \cup {"yearsExperience", "expectedSalary"}

\* What a numeric Profile field can hold: the form stores parseFloat of the
\* input (a number or NaN); a field may also be missing.
NumericValues == {Undefined, Null, NaN} \cup {Num(n) : n \in 0..MaxAmount}

\* A Profile whose numeric fields are given by f; the text fields are fixed.
ProfileOf(f, entry) ==
    [currentRole |-> Str("Engineer"),
     industry |-> Str("Technology"),
     location |-> Str("Dhaka"),
     currency |-> Str("BDT"),
     education |-> Str(""),
     userSkills |-> Str(""),
     projectDetails |-> Undefined,
     benefits |-> <<>>,
     isEntryLevel |-> entry,
     yearsExperience |-> f["yearsExperience"],
     expectedSalary |-> f["expectedSalary"],
     monthlyBaseSalary |-> f["monthlyBaseSalary"],
     monthlyIncentive |-> f["monthlyIncentive"],
     monthlyOvertime |-> f["monthlyOvertime"],
     annualProfitShare |-> f["annualProfitShare"],
     festivalBonus |-> f["festivalBonus"],
     providentFund |-> f["providentFund"],
     gratuity |-> f["gratuity"]]

\* Every numeric field holds the base value, but for at most MaxOverrides
\* fields, which hold any value.
NumericAssignments ==
    UNION {
        UNION {
            {[x \in NumericFields |-> IF x \in S THEN g[x] ELSE base] :
                g \in [S -> NumericValues]} :
            S \in {T \in SUBSET NumericFields : Cardinality(T) <= MaxOverrides}} :
        base \in NumericValues}

EntryFlags == {Bool(TRUE), Bool(FALSE), Undefined}

AdapterProfiles ==
    {ProfileOf(f, e) : f \in NumericAssignments, e \in EntryFlags}

-----------------------------------------------------------------------------
(* JSON text.  A text is a sequence of tokens; JSON.parse is a recursive   *)
(* descent over it.  A number token carries its decimal digits.            *)

LBrace == [k |-> "{"]
RBrace == [k |-> "}"]
LBracket == [k |-> "["]
RBracket == [k |-> "]"]
Colon == [k |-> ":"]
Comma == [k |-> ","]
StrTok(s) == [k |-> "string", s |-> s]
NumTok(d) == [k |-> "number", digits |-> d]
LitTok(w) == [k |-> "literal", w |-> w]     \* null, true, false
WordTok(w) == [k |-> "word", w |-> w]       \* text that is no JSON token

RECURSIVE DigitsValue(_)
\* The number a digit sequence denotes.
DigitsValue(d) ==
    IF d = <<>> THEN 0 ELSE 10 * DigitsValue(SubSeq(d, 1, Len(d) - 1)) + d[Len(d)]

\* JSON's number grammar on digit sequences: no empty one, no leading zero.
WellFormedDigits(d) == Len(d) >= 1 /\ (Len(d) > 1 => d[1] # 0)

ParseFail == [ok |-> FALSE]
ParseOk(v, rest) == [ok |-> TRUE, v |-> v, rest |-> rest]

RECURSIVE ParseValue(_), ParseMembers(_, _), ParseElements(_, _)

\* value := number | string | null | true | false | object | array
ParseValue(toks) ==
    IF toks = <<>> THEN ParseFail
    ELSE LET h == Head(toks)
             r == Tail(toks)
         IN  CASE h.k = "number" ->
                    IF WellFormedDigits(h.digits)
                    THEN ParseOk(Num(DigitsValue(h.digits)), r)
                    ELSE ParseFail
               [] h.k = "string" -> ParseOk(Str(h.s), r)
               [] h.k = "literal" ->
                    ParseOk(CASE h.w = "null" -> Null
                              [] h.w = "true" -> Bool(TRUE)
                              [] OTHER -> Bool(FALSE), r)
               [] h.k = "{" ->
                    IF r # <<>> /\ Head(r) = RBrace
                    THEN ParseOk(Obj(<<>>), Tail(r))
                    ELSE ParseMembers(r, <<>>)
               [] h.k = "[" ->
                    IF r # <<>> /\ Head(r) = RBracket
                    THEN ParseOk(Arr(<<>>), Tail(r))
                    ELSE ParseElements(r, <<>>)
               [] OTHER -> ParseFail

\* members := string ':' value (',' members)? '}' ; a repeated key keeps the
\* last value.
ParseMembers(toks, acc) ==
    IF Len(toks) < 3 \/ toks[1].k # "string" \/ toks[2] # Colon THEN ParseFail
    ELSE LET key == toks[1].s
             pv == ParseValue(SubSeq(toks, 3, Len(toks)))
         IN  IF ~pv.ok \/ pv.rest = <<>> THEN ParseFail
             ELSE LET acc2 == (key :> pv.v) @@ acc
                      sep == Head(pv.rest)
                  IN  CASE sep = RBrace -> ParseOk(Obj(acc2), Tail(pv.rest))
                        [] sep = Comma -> ParseMembers(Tail(pv.rest), acc2)
                        [] OTHER -> ParseFail

\* elements := value (',' elements)? ']'
ParseElements(toks, acc) ==
    LET pv == ParseValue(toks)
    IN  IF ~pv.ok \/ pv.rest = <<>> THEN ParseFail
        ELSE LET acc2 == Append(acc, pv.v)
                 sep == Head(pv.rest)
             IN  CASE sep = RBracket -> ParseOk(Arr(acc2), Tail(pv.rest))
                   [] sep = Comma -> ParseElements(Tail(pv.rest), acc2)
                   [] OTHER -> ParseFail

\* JSON.parse(text): the value, or a SyntaxError.
JSONParse(text) ==
    LET pv == ParseValue(text)
    IN  IF pv.ok /\ pv.rest = <<>>
        THEN [ok |-> TRUE, v |-> pv.v]
        ELSE [ok |-> FALSE]

-----------------------------------------------------------------------------
(* The generation service: the documents it may answer with and the text   *)
(* it serialises them to.                                                   *)

RECURSIVE NatDigits(_)
\* The decimal digits of a natural number.
NatDigits(n) == IF n < 10 THEN <<n>> ELSE Append(NatDigits(n \div 10), n % 10)

RECURSIVE Stringify(_), StringifyMembers(_, _), StringifyElements(_)

\* The text of a JSON value.
Stringify(v) ==
    CASE v.t = "number" -> <<NumTok(NatDigits(v.v))>>
      [] v.t = "string" -> <<StrTok(v.s)>>
      [] v.t = "null" -> <<LitTok("null")>>
      [] v.t = "boolean" -> <<LitTok(IF v.b THEN "true" ELSE "false")>>
      [] v.t = "object" ->
            IF DOMAIN v.o = {}
            THEN <<LBrace, RBrace>>
            ELSE <<LBrace>> \o StringifyMembers(v.o, DOMAIN v.o)
      [] v.t = "array" ->
            IF v.a = <<>>
            THEN <<LBracket, RBracket>>
            ELSE <<LBracket>> \o StringifyElements(v.a)

StringifyMembers(o, keys) ==
    LET key == CHOOSE x \in keys : TRUE
        member == <<StrTok(key), Colon>> \o Stringify(o[key])
    IN  IF keys = {key}
        THEN member \o <<RBrace>>
        ELSE member \o <<Comma>> \o StringifyMembers(o, keys \ {key})

StringifyElements(a) ==
    IF Len(a) = 1
    THEN Stringify(a[1]) \o <<RBracket>>
    ELSE Stringify(a[1]) \o <<Comma>> \o StringifyElements(Tail(a))

\* A salary range object.
Range(lo, mid, hi) == Obj([min |-> Num(lo), median |-> Num(mid), max |-> Num(hi)])

\* An Insights document with the given ranges and verdict colour.
InsightsDoc(current, next, colour) ==
    Obj([marketAnalysis |->
            Obj([currentRoleMarketValue |-> current,
                 paymentStatus |-> Str("Fair"),
                 percentile |-> Num(50),
                 gapAnalysis |-> Str("at market")]),
         nextCareerMove |->
            Obj([roleTitle |-> Str("Senior Engineer"),
                 timeframeYears |-> Str("1-2"),
                 probabilityScore |-> Num(80),
                 salaryRange |-> next,
                 requiredSkills |-> Arr(<<Str("leadership"), Str("design")>>),
                 switchChecklist |-> Arr(<<>>)]),
         negotiation |->
            Obj([whyYouArePerfect |-> Str("track record"),
                 whyYouDeserveIt |-> Str("market data"),
                 tips |-> Arr(<<Str("be specific")>>)]),
         verdictColor |-> Str(colour)])

InsightsA == InsightsDoc(Range(80, 100, 120), Range(120, 150, 205), "green")
InsightsB == InsightsDoc(Range(0, 0, 0), Range(10, 12, 13), "red")

\* A document of the schema's shape whose market range runs downwards.
InsightsInverted == InsightsDoc(Range(120, 100, 80), Range(120, 150, 205), "green")

\* v.o without the member named key.
Without(v, key) == Obj([x \in DOMAIN v.o \ {key} |-> v.o[x]])

\* The documents the service may serialise as its answer.
ServiceDocs ==
    {InsightsA, InsightsB, InsightsInverted, Without(InsightsA, "nextCareerMove"),
     Obj(<<>>), Num(0), Null}

\* A JavaScript string holding a token sequence.
Text(toks) == [t |-> "text", toks |-> toks]

\* response.text: undefined when the answer has no text part.
ResponseTexts ==
    {Undefined, Text(<<>>)}
    \cup {Text(Stringify(d)) : d \in ServiceDocs}
    \cup {Text(<<WordTok("Sorry")>>),
          Text(SubSeq(Stringify(InsightsA), 1, Len(Stringify(InsightsA)) - 1))}

\* What the awaited generateContent settles with: a response, or a rejection.
Responses ==
    {[kind |-> "response", text |-> x] : x \in ResponseTexts}
    \cup {[kind |-> "rejected", message |-> "fetch failed"]}

-----------------------------------------------------------------------------
(* The response schema declared in the request.                            *)

HasKeys(v, keys) == v.t = "object" /\ keys \subseteq DOMAIN v.o

IsString(v) == v.t = "string"

IsStringArray(v) == v.t = "array" /\ \A i \in 1..Len(v.a) : IsString(v.a[i])

ConformsRange(v) ==
    /\ HasKeys(v, {"min", "median", "max"})
    /\ \A x \in {"min", "median", "max"} : v.o[x].t = "number"

PaymentStatuses(copy) ==
    {"Underpaid", "Fair", "Highly Competitive"}
    \cup (IF copy = EntryAware THEN {"Entry Level"} ELSE {})

ConformsMarketAnalysis(copy, v) ==
    /\ HasKeys(v, {"currentRoleMarketValue", "paymentStatus", "percentile",
                   "gapAnalysis"})
    /\ ConformsRange(v.o["currentRoleMarketValue"])
    /\ IsString(v.o["paymentStatus"])
    /\ v.o["paymentStatus"].s \in PaymentStatuses(copy)
    /\ v.o["percentile"].t = "number"
    /\ IsString(v.o["gapAnalysis"])

\* services/geminiService.ts declares no switchChecklist.
ConformsNextCareerMove(copy, v) ==
    /\ HasKeys(v, {"roleTitle", "timeframeYears", "probabilityScore",
                   "salaryRange", "requiredSkills"})
    /\ IsString(v.o["roleTitle"])
    /\ IsString(v.o["timeframeYears"])
    /\ v.o["probabilityScore"].t = "number"
    /\ ConformsRange(v.o["salaryRange"])
    /\ IsStringArray(v.o["requiredSkills"])
    /\ copy # Breakdown =>
            /\ HasKeys(v, {"switchChecklist"})
            /\ IsStringArray(v.o["switchChecklist"])

ConformsNegotiation(v) ==
    /\ HasKeys(v, {"whyYouArePerfect", "whyYouDeserveIt", "tips"})
    /\ IsString(v.o["whyYouArePerfect"])
    /\ IsString(v.o["whyYouDeserveIt"])
    /\ IsStringArray(v.o["tips"])

\* Whether a value matches responseSchema.
Conforms(copy, v) ==
    /\ HasKeys(v, {"marketAnalysis", "nextCareerMove", "negotiation",
                   "verdictColor"})
    /\ ConformsMarketAnalysis(copy, v.o["marketAnalysis"])
    /\ ConformsNextCareerMove(copy, v.o["nextCareerMove"])
    /\ ConformsNegotiation(v.o["negotiation"])
    /\ IsString(v.o["verdictColor"])

-----------------------------------------------------------------------------
(* analyzeCompensation, in two halves: up to its await, and from the       *)
(* settled generateContent to its own return or throw.                     *)

Return(v) == [kind |-> "return", value |-> v]
Throw(m) == [kind |-> "throw", message |-> m]

\* From entry to the await: the credential check, the totals, the prompt and
\* the one generateContent call.  calls counts the requests issued.
analyzeCompensationCall(key, copy, profile) ==
    IF ~Truthy(getApiKey(key))
    THEN [thrown |-> TRUE, outcome |-> Throw("MISSING_API_KEY"), calls |-> 0]
    ELSE [thrown |-> FALSE,
          calls |-> 1,
          totalComp |-> Totals(profile).totalComp,
          request |-> [model |-> "gemini-2.5-flash",
                       contents |-> Prompt(copy, profile)]]

\* A catch block that issues the request once more when the call is rejected.
RetriesRejected(response) == IF response.kind = "rejected" THEN 1 ELSE 0

\* The catch block logs and rethrows: it issues no further request.
Retries(response) == 0

\* A copy that rebuilds the Insights field by field and forgets verdictColor.
analyzeCompensationResumeDropsField(response) ==
    IF response.kind = "rejected"
    THEN Throw(response.message)
    ELSE IF Truthy(response.text)
         THEN LET parsed == JSONParse(response.text.toks)
              IN  IF ~parsed.ok THEN Throw("SyntaxError")
                  ELSE IF parsed.v.t = "object"
                       THEN Return(Without(parsed.v, "verdictColor"))
                       ELSE Return(parsed.v)
         ELSE Return(Null)

\* A copy that parses response.text without testing it: JSON.parse of
\* undefined or of the empty string throws.
analyzeCompensationResumeParsesNoText(response) ==
    IF response.kind = "rejected"
    THEN Throw(response.message)
    ELSE LET parsed == IF response.text.t = "text"
                       THEN JSONParse(response.text.toks)
                       ELSE [ok |-> FALSE]
         IN  IF parsed.ok THEN Return(parsed.v) ELSE Throw("SyntaxError")

\* From the settled call to the end: the parsed text, null when there is no
\* text, and every error rethrown as it is.
analyzeCompensationResume(response) ==
    IF response.kind = "rejected"
    THEN Throw(response.message)
    ELSE IF Truthy(response.text)
         THEN LET parsed == JSONParse(response.text.toks)
              IN  IF parsed.ok THEN Return(parsed.v) ELSE Throw("SyntaxError")
         ELSE Return(Null)

-----------------------------------------------------------------------------
(* App.                                                                    *)

MsgMissingKey ==
    Str("API Key is missing. Please configure your Vercel/Environment variables with 'API_KEY'.")
MsgFailed ==
    Str("Analysis failed. Please check your internet connection and try again.")
MsgNoResult == Str("Could not generate analysis. Please try again.")

\* What the render shows in the main area.
View ==
    IF isLoading THEN "loading"
    ELSE IF Truthy(results) /\ userProfile # Null THEN "dashboard"
    ELSE "form"

\* A render that shows the form while a request is outstanding, its button
\* enabled.
SubmitOfferedWhileLoading == ~(Truthy(results) /\ userProfile # Null)

\* The form is on screen and its submit button is not disabled.
SubmitOffered == View = "form" /\ ~isLoading

\* handleAnalysis after its await: what it stores for an outcome of
\* analyzeCompensation, as [results, error]; the finally block is in the
\* actions.
handleAnalysisStore(outcome, res, err) ==
    IF outcome.kind = "return"
    THEN IF Truthy(outcome.value)
         THEN [results |-> outcome.value, error |-> err]
         ELSE [results |-> res, error |-> MsgNoResult]
    ELSE IF outcome.message = "MISSING_API_KEY"
         THEN [results |-> res, error |-> MsgMissingKey]
         ELSE [results |-> res, error |-> MsgFailed]

\* The Profiles the form hands to handleAnalysis.
AppProfiles ==
    {ProfileOf([x \in NumericFields |->
                    CASE x = "monthlyBaseSalary" -> Num(MaxAmount)
                      [] x = "yearsExperience" -> Num(1)
                      [] OTHER -> Num(0)], Bool(FALSE)),
     ProfileOf([x \in NumericFields |->
                    CASE x = "expectedSalary" -> Num(1)
                      [] OTHER -> Num(0)], Bool(TRUE)),
     ProfileOf([x \in NumericFields |->
                    CASE x = "monthlyBaseSalary" -> Num(1)
                      [] x = "monthlyIncentive" -> NaN
                      [] x = "expectedSalary" -> Undefined
                      [] OTHER -> Num(0)], Bool(FALSE))}

\* A copy of the finally block that runs only when the try block completes.
LoadingAfterSuccessOnly(outcome) == outcome.kind = "throw"

\* isLoading once handleAnalysis has left its try statement: the finally
\* block clears it whatever the outcome.
LoadingAfter(outcome) == FALSE

\* The form is submitted with profile: handleAnalysis runs to its await.
\* Without a credential analyzeCompensation has thrown before any await of a
\* request, and the catch and finally blocks run in the same turn of the
\* event loop, before any other event is handled.
Submit(profile) ==
    /\ SubmitOffered
    /\ Len(pending) < MaxPending
    /\ LET call == analyzeCompensationCall(apiKey, adapter, profile)
       IN  IF call.thrown
           THEN LET st == handleAnalysisStore(call.outcome, results, Null)
                IN  /\ isLoading' = LoadingAfter(call.outcome)
                    /\ results' = st.results
                    /\ error' = st.error
                    /\ pending' = pending
                    /\ event' = [op |-> "settled",
                                 profile |-> profile,
                                 calls |-> call.calls,
                                 response |-> [kind |-> "none"],
                                 outcome |-> call.outcome]
           ELSE /\ isLoading' = TRUE
                /\ results' = results
                /\ error' = Null
                /\ pending' = Append(pending,
                        [profile |-> profile,
                         request |-> call.request,
                         calls |-> call.calls])
                /\ event' = [op |-> "submitted", profile |-> profile]
    /\ userProfile' = profile
    /\ UNCHANGED <<apiKey, adapter, adapterVars, dashboardVars, formVars,
                   feedbackVars>>

\* The i-th suspended invocation's generateContent settles with response:
\* analyzeCompensation returns or throws, and handleAnalysis stores the
\* outcome and clears isLoading, all in one turn of the event loop.
Settle(i, response) ==
    /\ i \in 1..Len(pending)
    /\ LET inv == pending[i]
           outcome == analyzeCompensationResume(response)
           st == handleAnalysisStore(outcome, results, error)
       IN  /\ results' = st.results
           /\ error' = st.error
           /\ event' = [op |-> "settled",
                        profile |-> inv.profile,
                        calls |-> inv.calls + Retries(response),
                        response |-> response,
                        outcome |-> outcome]
           /\ isLoading' = LoadingAfter(outcome)
    /\ pending' = SubSeq(pending, 1, i - 1) \o SubSeq(pending, i + 1, Len(pending))
    /\ UNCHANGED <<userProfile, apiKey, adapter, adapterVars, dashboardVars, formVars,
                   feedbackVars>>

\* A copy of handleReset that also clears isLoading.
ResetClearsLoading ==
    /\ results' = Null
    /\ userProfile' = Null
    /\ error' = Null
    /\ isLoading' = FALSE
    /\ event' = [op |-> "reset"]
    /\ UNCHANGED <<pending, apiKey, adapter, adapterVars, dashboardVars, formVars,
                   feedbackVars>>

\* handleReset: the logo, always on screen, or the dashboard's reset button.
Reset ==
    /\ results' = Null
    /\ userProfile' = Null
    /\ error' = Null
    /\ event' = [op |-> "reset"]
    /\ UNCHANGED <<isLoading, pending, apiKey, adapter, adapterVars, dashboardVars,
                   formVars,
                   feedbackVars>>

-----------------------------------------------------------------------------
(* ResultsDashboard: the figures it derives from its props.  A quotient    *)
(* that is no whole number is kept as a reduced fraction, so the model     *)
(* follows the arithmetic and not its binary rounding.                     *)

\* The two copies of the dashboard in the repository.
DashboardWithFallback == "unnamed/part_000"
DashboardPlain == "components/ResultsDashboard.tsx"
Dashboards == {DashboardWithFallback, DashboardPlain}

Infinity(sign) == [t |-> "Infinity", sign |-> sign]

Abs(n) == IF n < 0 THEN -n ELSE n

RECURSIVE GCD(_, _)
GCD(a, b) == IF b = 0 THEN a ELSE GCD(b, a % b)

\* The number n / d, for d # 0.
Quotient(n, d) ==
    LET g == GCD(Abs(n), Abs(d))
        sn == IF d < 0 THEN -n ELSE n
    IN  IF Abs(d) \div g = 1
        THEN Num(sn \div g)
        ELSE [t |-> "fraction", n |-> sn \div g, d |-> Abs(d) \div g]

\* A finite number: whole or a fraction.
Finite(a) == a.t \in {"number", "fraction"}

\* Numerator and denominator of a finite number.
Numer(a) == IF a.t = "number" THEN a.v ELSE a.n
Denom(a) == IF a.t = "number" THEN 1 ELSE a.d

\* a - b on finite numbers.
JsSub(a, b) ==
    IF Finite(a) /\ Finite(b)
    THEN Quotient(Numer(a) * Denom(b) - Numer(b) * Denom(a), Denom(a) * Denom(b))
    ELSE NaN

\* a + b on finite numbers.
JsPlus(a, b) ==
    IF Finite(a) /\ Finite(b)
    THEN Quotient(Numer(a) * Denom(b) + Numer(b) * Denom(a), Denom(a) * Denom(b))
    ELSE NaN

\* a / b on finite numbers: a zero divisor gives NaN for 0 / 0 and an
\* infinity otherwise; nothing is raised.
JsDiv(a, b) ==
    IF ~Finite(a) \/ ~Finite(b) THEN NaN
    ELSE IF Numer(b) # 0 THEN Quotient(Numer(a) * Denom(b), Denom(a) * Numer(b))
    ELSE IF Numer(a) = 0 THEN NaN
    ELSE Infinity(IF Numer(a) > 0 THEN 1 ELSE -1)

\* a < b on numbers and infinities; a comparison with NaN is false.
JsLess(a, b) ==
    CASE a.t = "NaN" \/ b.t = "NaN" -> FALSE
      [] a.t = "Infinity" /\ b.t = "Infinity" -> a.sign < b.sign
      [] a.t = "Infinity" -> a.sign < 0
      [] b.t = "Infinity" -> b.sign > 0
      [] OTHER -> Numer(a) * Denom(b) < Numer(b) * Denom(a)

\* Math.max and Math.min of two values: NaN when either is NaN.
MathMax(a, b) ==
    IF a.t = "NaN" \/ b.t = "NaN" THEN NaN ELSE IF JsLess(a, b) THEN b ELSE a

MathMin(a, b) ==
    IF a.t = "NaN" \/ b.t = "NaN" THEN NaN ELSE IF JsLess(b, a) THEN b ELSE a

\* a * k for a whole number k > 0.
JsScale(a, k) ==
    CASE a.t = "number" -> Num(a.v * k)
      [] a.t = "fraction" -> Quotient(a.n * k, a.d)
      [] OTHER -> a        \* NaN and the infinities

\* A copy of currentAnnual that adds the monthly overtime unscaled.
currentAnnualOvertimeUnscaled(profile) ==
    JsAdd(JsAdd(JsAdd(JsAdd(JsAdd(JsAdd(
        JsMul(OrElse(profile.monthlyBaseSalary, Num(0)), Num(12)),
        JsMul(OrElse(profile.monthlyIncentive, Num(0)), Num(12))),
        OrElse(profile.monthlyOvertime, Num(0))),
        OrElse(profile.annualProfitShare, Num(0))),
        OrElse(profile.festivalBonus, Num(0))),
        OrElse(profile.providentFund, Num(0))),
        OrElse(profile.gratuity, Num(0)))

\* currentAnnual, the same expression in both copies.
currentAnnual(profile) ==
    JsAdd(JsAdd(JsAdd(JsAdd(JsAdd(JsAdd(
        JsMul(OrElse(profile.monthlyBaseSalary, Num(0)), Num(12)),
        JsMul(OrElse(profile.monthlyIncentive, Num(0)), Num(12))),
        JsMul(OrElse(profile.monthlyOvertime, Num(0)), Num(12))),
        OrElse(profile.annualProfitShare, Num(0))),
        OrElse(profile.festivalBonus, Num(0))),
        OrElse(profile.providentFund, Num(0))),
        OrElse(profile.gratuity, Num(0)))

\* results.marketAnalysis.currentRoleMarketValue.median
targetEntryAnnual(res) ==
    res.o["marketAnalysis"].o["currentRoleMarketValue"].o["median"]

\* results.nextCareerMove.salaryRange.median
nextAnnualMedian(res) == res.o["nextCareerMove"].o["salaryRange"].o["median"]

\* The divisor of growthPercentage: currentAnnual, and in the copy with the
\* fallback the market median when currentAnnual is not above 0.
growthDivisor(copy, profile, res) ==
    IF copy = DashboardWithFallback /\ ~(currentAnnual(profile).v > 0)
    THEN targetEntryAnnual(res)
    ELSE currentAnnual(profile)

\* growthPercentage: ((nextAnnualMedian - baseline) / baseline) * 100.
growthPercentage(copy, profile, res) ==
    LET baseline == growthDivisor(copy, profile, res)
    IN  JsScale(JsDiv(JsSub(nextAnnualMedian(res), baseline), baseline), 100)

\* A copy of currencySymbol whose table lacks the taka.
currencySymbolNoBDT(profile) ==
    CASE profile.currency = Str("USD") -> "$"
      [] profile.currency = Str("EUR") -> "€"
      [] profile.currency = Str("GBP") -> "£"
      [] profile.currency = Str("INR") -> "₹"
      [] OTHER -> "$"

\* currencySymbol, the same chain of comparisons in both copies.
currencySymbol(profile) ==
    CASE profile.currency = Str("USD") -> "$"
      [] profile.currency = Str("EUR") -> "€"
      [] profile.currency = Str("GBP") -> "£"
      [] profile.currency = Str("BDT") -> "৳"
      [] profile.currency = Str("INR") -> "₹"
      [] OTHER -> "$"

\* expectedAnnual of the copy with the entry-level view.
expectedAnnual(profile) == JsMul(OrElse(profile.expectedSalary, Num(0)), Num(12))

\* MarketSpectrum.getPos for the range lo..hi.
getPos(val, lo, hi) ==
    MathMin(MathMax(JsScale(JsDiv(JsSub(val, lo), JsSub(hi, lo)), 100), Num(0)),
            Num(100))

\* The marker positions MarketSpectrum computes for a range and a current
\* figure.
MarketSpectrum(range, current) ==
    LET lo == range.o["min"]
        hi == range.o["max"]
        median == range.o["median"]
    IN  [medianPos |-> getPos(median, lo, hi),
         currentPos |-> IF Truthy(current) THEN getPos(current, lo, hi) ELSE Num(0),
         p25Pos |-> getPos(JsPlus(lo, JsDiv(JsSub(median, lo), Num(2))), lo, hi),
         p75Pos |-> getPos(JsPlus(median, JsDiv(JsSub(hi, median), Num(2))), lo, hi)]

\* The figure the 'current' spectrum marks: the expectation of an entry-level
\* Profile in the copy that has the entry-level view, currentAnnual otherwise.
spectrumCurrent(copy, profile) ==
    IF copy = DashboardWithFallback /\ Truthy(profile.isEntryLevel)
    THEN expectedAnnual(profile)
    ELSE currentAnnual(profile)

\* What the dashboard computes from its props before it renders.
Derive(copy, p) ==
    [spectrumCurrent |->
        MarketSpectrum(p.results.o["marketAnalysis"].o["currentRoleMarketValue"],
                       spectrumCurrent(copy, p.userProfile)),
     spectrumFuture |->
        MarketSpectrum(p.results.o["nextCareerMove"].o["salaryRange"],
                       nextAnnualMedian(p.results)),
     currentAnnual |-> currentAnnual(p.userProfile),
     divisor |-> growthDivisor(copy, p.userProfile, p.results),
     growthPercentage |-> growthPercentage(copy, p.userProfile, p.results),
     currencySymbol |-> currencySymbol(p.userProfile)]

\* ResultsDashboard is rendered with props.
RenderDashboard ==
    /\ derived = Null
    /\ derived' = Derive(dashboard, props)
    /\ UNCHANGED <<dashboard, props, apiKey, adapter, appVars, adapterVars,
                   formVars,
                   feedbackVars>>

-----------------------------------------------------------------------------
(* SalaryForm: its profile and mode state and the handlers that update     *)
(* them.  constants.ts is not among the sources: DEFAULT_PROFILE and       *)
(* BENEFIT_OPTIONS follow the data model of the specification.             *)

\* Number of labels in the benefit catalog.
BenefitCount == 3

BenefitLabels ==
    <<"Health Insurance", "Remote Work", "Stock Options", "Gym Membership",
      "Meal Allowance">>

\* The fixed catalog of benefit labels.
BENEFIT_OPTIONS == {BenefitLabels[i] : i \in 1..BenefitCount}

\* The Profile the form starts from: not entry-level, every amount zero, no
\* expected salary, USD, no benefit selected.
DEFAULT_PROFILE ==
    [ProfileOf([x \in NumericFields |->
                    IF x = "expectedSalary" THEN Undefined ELSE Num(0)],
               Bool(FALSE))
        EXCEPT !.currentRole = Str(""),
               !.location = Str(""),
               !.currency = Str("USD")]

\* handleChange: the field replaced, every other field kept.
handleChange(prev, field, value) == [prev EXCEPT ![field] = value]

\* A copy of handleModeSwitch that leaves the flag as it is.
handleModeSwitchKeepsFlag(prev, newMode) ==
    [prev EXCEPT !.monthlyBaseSalary =
                    IF newMode = "entry" THEN Num(0) ELSE prev.monthlyBaseSalary,
                 !.yearsExperience =
                    IF newMode = "entry" THEN Num(0) ELSE prev.yearsExperience]

\* A copy of handleModeSwitch that zeroes the two fields on every switch.
handleModeSwitchAlwaysZeroes(prev, newMode) ==
    [prev EXCEPT !.isEntryLevel = Bool(newMode = "entry"),
                 !.monthlyBaseSalary = Num(0),
                 !.yearsExperience = Num(0)]

\* handleModeSwitch on the profile: the flag follows the mode, and a switch
\* to 'entry' zeroes the base salary and the years of experience.
handleModeSwitch(prev, newMode) ==
    [prev EXCEPT !.isEntryLevel = Bool(newMode = "entry"),
                 !.monthlyBaseSalary =
                    IF newMode = "entry" THEN Num(0) ELSE prev.monthlyBaseSalary,
                 !.yearsExperience =
                    IF newMode = "entry" THEN Num(0) ELSE prev.yearsExperience]

\* prev.benefits.includes(benefit)
Includes(list, benefit) == \E i \in 1..Len(list) : list[i] = benefit

\* A copy of toggleBenefit that appends without looking for the label.
toggleBenefitAlwaysAdds(prev, benefit) ==
    [prev EXCEPT !.benefits = Append(prev.benefits, benefit)]

\* toggleBenefit: the label filtered out when it is in the list, appended
\* when it is not.
toggleBenefit(prev, benefit) ==
    IF Includes(prev.benefits, benefit)
    THEN [prev EXCEPT !.benefits = SelectSeq(prev.benefits, LAMBDA b : b # benefit)]
    ELSE [prev EXCEPT !.benefits = Append(prev.benefits, benefit)]

\* What a numeric input hands to handleChange: parseFloat of its text.
ParsedInputs == {NaN} \cup {Num(n) : n \in 0..MaxAmount}

\* The numeric inputs on screen in each mode.
InputsOf(m) ==
    IF m = "entry"
    THEN {"expectedSalary"}
    ELSE {"yearsExperience", "monthlyBaseSalary"}

\* A numeric input of the current mode changes.
ChangeInput(field, value) ==
    /\ field \in InputsOf(formMode)
    /\ formProfile' = handleChange(formProfile, field, value)
    /\ event' = [op |-> "handleChange", field |-> field]
    /\ UNCHANGED <<formMode, apiKey, adapter, appStateVars, adapterVars,
                   dashboardVars,
                   feedbackVars>>

\* One of the two mode buttons is clicked.
SwitchMode(newMode) ==
    /\ formMode' = newMode
    /\ formProfile' = handleModeSwitch(formProfile, newMode)
    /\ event' = [op |-> "handleModeSwitch", newMode |-> newMode]
    /\ UNCHANGED <<apiKey, adapter, appStateVars, adapterVars, dashboardVars,
                   feedbackVars>>

\* A benefit checkbox, on screen in the experienced mode, is clicked.  The
\* list is capped so that a toggle that only ever appends stays finite.
ToggleBenefit(benefit) ==
    /\ formMode = "experienced"
    /\ Len(formProfile.benefits) <= BenefitCount
    /\ formProfile' = toggleBenefit(formProfile, benefit)
    /\ event' = [op |-> "toggleBenefit", benefit |-> benefit]
    /\ UNCHANGED <<formMode, apiKey, adapter, appStateVars, adapterVars,
                   dashboardVars,
                   feedbackVars>>

-----------------------------------------------------------------------------
(* FeedbackModal: its state, the POST to the form relay and the reset       *)
(* timer.  A text is the sequence of its characters.  The modal stays      *)
(* mounted while hidden (it renders null when isOpen is false), so its     *)
(* state, its timers and its suspended handlers outlive a close.           *)

\* Most handleSubmit invocations suspended at once.
MaxPosts == 2

\* Most reset callbacks scheduled and not yet run.
MaxTimers == 2

\* Longest text typed into the email input.
MaxLen == 3

WhiteSpace == {" ", "\t"}

\* The first i with 1 <= i <= Len(text) + 1 such that text[i] is no white
\* space, counting from index i.
RECURSIVE FirstInk(_, _)
FirstInk(text, i) ==
    IF i > Len(text) \/ text[i] \notin WhiteSpace THEN i ELSE FirstInk(text, i + 1)

\* The last i with 0 <= i <= Len(text) such that text[i] is no white space,
\* counting down from index i.
RECURSIVE LastInk(_, _)
LastInk(text, i) ==
    IF i < 1 \/ text[i] \notin WhiteSpace THEN i ELSE LastInk(text, i - 1)

\* String.prototype.trim
Trim(text) == SubSeq(text, FirstInk(text, 1), LastInk(text, Len(text)))

\* A copy of the payload that carries the email as it was typed.
BuildPayloadUntrimmed(r, mail, missing, improve) ==
    [rating |-> r,
     missing_fields |-> missing,
     improvements |-> improve,
     _subject |-> [template |-> "New App Feedback (${rating}/5 stars)",
                   rating |-> r]]
    @@ (IF mail # <<>>
        THEN "email" :> mail
        ELSE "sender_status" :> "Anonymous User")

\* The payload handleSubmit prepares: the email key when the trimmed email is
\* not empty, the sender_status key otherwise.
BuildPayload(r, mail, missing, improve) ==
    [rating |-> r,
     missing_fields |-> missing,
     improvements |-> improve,
     _subject |-> [template |-> "New App Feedback (${rating}/5 stars)",
                   rating |-> r]]
    @@ (IF mail # <<>> /\ Len(Trim(mail)) > 0
        THEN "email" :> Trim(mail)
        ELSE "sender_status" :> "Anonymous User")

\* A copy of the try statement that shows the form again when the POST fails.
StepAfterFailureShowsForm(outcome) == IF outcome = "ok" THEN "success" ELSE "form"

\* step once handleSubmit has left its try statement: 'success' from the try
\* block and from the catch block alike.
StepAfter(outcome) == "success"

\* The list without its i-th element.
RemoveAt(list, i) == SubSeq(list, 1, i - 1) \o SubSeq(list, i + 1, Len(list))

\* The parent shows the modal.
OpenModal ==
    /\ ~isOpen
    /\ isOpen' = TRUE
    /\ event' = [op |-> "open"]
    /\ UNCHANGED <<step, rating, email, missingFields, improvements, inFlight,
                   timers, apiKey, adapter, appStateVars, adapterVars,
                   dashboardVars, formVars>>

\* The form of the modal is on screen: in every step but 'success'.
FormShown == isOpen /\ step # "success"

\* A star is clicked.
SetRating(star) ==
    /\ FormShown
    /\ rating' = star
    /\ event' = [op |-> "setRating"]
    /\ UNCHANGED <<isOpen, step, email, missingFields, improvements, inFlight,
                   timers, apiKey, adapter, appStateVars, adapterVars,
                   dashboardVars, formVars>>

\* The email input changes.
SetEmail(text) ==
    /\ FormShown
    /\ email' = text
    /\ event' = [op |-> "setEmail"]
    /\ UNCHANGED <<isOpen, step, rating, missingFields, improvements, inFlight,
                   timers, apiKey, adapter, appStateVars, adapterVars,
                   dashboardVars, formVars>>

\* The first textarea changes.
SetMissingFields(text) ==
    /\ FormShown
    /\ missingFields' = text
    /\ event' = [op |-> "setMissingFields"]
    /\ UNCHANGED <<isOpen, step, rating, email, improvements, inFlight,
                   timers, apiKey, adapter, appStateVars, adapterVars,
                   dashboardVars, formVars>>

\* The second textarea changes.
SetImprovements(text) ==
    /\ FormShown
    /\ improvements' = text
    /\ event' = [op |-> "setImprovements"]
    /\ UNCHANGED <<isOpen, step, rating, email, missingFields, inFlight,
                   timers, apiKey, adapter, appStateVars, adapterVars,
                   dashboardVars, formVars>>

\* The submit button is enabled: it is disabled in step 'submitting'.
SubmitEnabled == FormShown /\ step # "submitting"

\* handleSubmit up to its await: the step, the payload and the POST.
SubmitFeedback ==
    /\ SubmitEnabled
    /\ Len(inFlight) < MaxPosts
    /\ step' = "submitting"
    /\ inFlight' = Append(inFlight, "fetch")
    /\ event' = [op |-> "handleSubmit",
                 body |-> BuildPayload(rating, email, missingFields, improvements)]
    /\ UNCHANGED <<isOpen, rating, email, missingFields, improvements, timers,
                   apiKey, adapter, appStateVars, adapterVars, dashboardVars,
                   formVars>>

\* The fetch of the i-th suspended handleSubmit settles: with an ok response
\* or a rejection the handler runs to its end; with a response that is not ok
\* it suspends again, at response.json().
FetchSettles(i, outcome) ==
    /\ i \in 1..Len(inFlight)
    /\ inFlight[i] = "fetch"
    /\ IF outcome = "notOk"
       THEN /\ inFlight' = [inFlight EXCEPT ![i] = "json"]
            /\ step' = step
            /\ event' = [op |-> "responseNotOk"]
       ELSE /\ inFlight' = RemoveAt(inFlight, i)
            /\ step' = StepAfter(outcome)
            /\ event' = [op |-> "feedbackSettled", outcome |-> outcome]
    /\ UNCHANGED <<isOpen, rating, email, missingFields, improvements, timers,
                   apiKey, adapter, appStateVars, adapterVars, dashboardVars,
                   formVars>>

\* response.json() of the i-th suspended handleSubmit settles: the handler
\* throws, or rethrows the rejection, and its catch block runs.
ErrorBodySettles(i) ==
    /\ i \in 1..Len(inFlight)
    /\ inFlight[i] = "json"
    /\ inFlight' = RemoveAt(inFlight, i)
    /\ step' = StepAfter("notOk")
    /\ event' = [op |-> "feedbackSettled", outcome |-> "notOk"]
    /\ UNCHANGED <<isOpen, rating, email, missingFields, improvements, timers,
                   apiKey, adapter, appStateVars, adapterVars, dashboardVars,
                   formVars>>

\* handleClose: the backdrop, the cross or the Close button of the success
\* view.  onClose hides the modal and the reset is scheduled.
CloseModal ==
    /\ isOpen
    /\ timers < MaxTimers
    /\ isOpen' = FALSE
    /\ timers' = timers + 1
    /\ event' = [op |-> "handleClose"]
    /\ UNCHANGED <<step, rating, email, missingFields, improvements, inFlight,
                   apiKey, adapter, appStateVars, adapterVars, dashboardVars,
                   formVars>>

\* A reset callback scheduled by handleClose runs.
ResetTimerFires ==
    /\ timers > 0
    /\ timers' = timers - 1
    /\ step' = "form"
    /\ rating' = 0
    /\ email' = <<>>
    /\ missingFields' = <<>>
    /\ improvements' = <<>>
    /\ event' = [op |-> "resetTimer"]
    /\ UNCHANGED <<isOpen, inFlight, apiKey, adapter, appStateVars, adapterVars,
                   dashboardVars, formVars>>

ApiKeys == {Undefined, Str(""), Str("key")}

NoProfile == ProfileOf([x \in NumericFields |-> Num(0)], Bool(FALSE))

\* App before anything is submitted.
AppIdle ==
    /\ isLoading = FALSE
    /\ results = Null
    /\ userProfile = Null
    /\ error = Null
    /\ pending = <<>>
    /\ event = [op |-> "mounted"]

\* No dashboard rendered.
DashboardIdle ==
    /\ dashboard = DashboardWithFallback
    /\ props = Null
    /\ derived = Null

\* The feedback modal as it is mounted: hidden, its form empty.
FeedbackIdle ==
    /\ isOpen = FALSE
    /\ step = "form"
    /\ rating = 0
    /\ email = <<>>
    /\ missingFields = <<>>
    /\ improvements = <<>>
    /\ inFlight = <<>>
    /\ timers = 0

\* The form as it is mounted.
FormIdle ==
    /\ formProfile = DEFAULT_PROFILE
    /\ formMode = "experienced"

Init ==
    /\ apiKey \in ApiKeys
    /\ adapter \in Adapters
    /\ isLoading = FALSE
    /\ results = Null
    /\ userProfile = Null
    /\ error = Null
    /\ pending = <<>>
    /\ event = [op |-> "mounted"]
    /\ arg = NoProfile
    /\ out = Null
    /\ DashboardIdle
    /\ FormIdle
    /\ FeedbackIdle

Next ==
    \/ \E profile \in AppProfiles : Submit(profile)
    \/ \E i \in 1..MaxPending, response \in Responses : Settle(i, response)
    \/ Reset

Spec == Init /\ [][Next]_vars

-----------------------------------------------------------------------------
(* The adapter on its own: analyzeCompensation up to its await, applied to *)
(* every Profile of AdapterProfiles by every copy.                         *)

BuildRequest ==
    /\ out = Null
    /\ out' = analyzeCompensationCall(apiKey, adapter, arg)
    /\ UNCHANGED <<apiKey, adapter, arg, appVars, dashboardVars, formVars,
                   feedbackVars>>

InitAdapter ==
    /\ apiKey = Str("key")
    /\ adapter \in Adapters
    /\ arg \in AdapterProfiles
    /\ out = Null
    /\ isLoading = FALSE
    /\ results = Null
    /\ userProfile = Null
    /\ error = Null
    /\ pending = <<>>
    /\ event = [op |-> "mounted"]
    /\ DashboardIdle
    /\ FormIdle
    /\ FeedbackIdle

NextAdapter == BuildRequest

SpecAdapter == InitAdapter /\ [][NextAdapter]_vars

-----------------------------------------------------------------------------
(* The dashboard on its own: ResultsDashboard rendered once with props     *)
(* drawn from a bounded family.                                            *)

\* Currency codes: the five of the table, one outside it, the empty string
\* and a missing code.
CurrencyCodes ==
    {Str("USD"), Str("EUR"), Str("GBP"), Str("BDT"), Str("INR"), Str("JPY"),
     Str(""), Undefined}

\* Range medians: the small amounts and three realistic annual figures.
Medians == 0..MaxAmount \cup {80000, 120000, 150000}

\* Profiles with any currency code and a profit share of 0, 1 or 100000.
CurrencyProfiles ==
    {[NoProfile EXCEPT !.currency = c, !.annualProfitShare = Num(a)] :
        c \in CurrencyCodes, a \in {0, 1, 100000}}

\* Every adapter Profile with one Insights document, and every currency
\* Profile with every pair of medians.
DashboardProps ==
    {[userProfile |-> p, results |-> InsightsA] : p \in AdapterProfiles}
    \cup {[userProfile |-> p,
           results |-> InsightsDoc(Range(0, m, m), Range(0, n, n), "green")] :
            p \in CurrencyProfiles, m \in Medians, n \in Medians}

InitDashboard ==
    /\ apiKey = Str("key")
    /\ adapter = EntryAware
    /\ AppIdle
    /\ arg = NoProfile
    /\ out = Null
    /\ FormIdle
    /\ FeedbackIdle
    /\ dashboard \in Dashboards
    /\ props \in DashboardProps
    /\ derived = Null

NextDashboard == RenderDashboard

SpecDashboard == InitDashboard /\ [][NextDashboard]_vars

-----------------------------------------------------------------------------
(* The form on its own: the inputs, the mode buttons and the benefit       *)
(* checkboxes, in any order.                                               *)

\* The labels of a list.
Labels(list) == {list[i] : i \in 1..Len(list)}

\* The lists of catalog labels in which no label occurs twice.
DuplicateFreeLists ==
    {l \in UNION {[1..n -> BENEFIT_OPTIONS] : n \in 0..BenefitCount} :
        Cardinality(Labels(l)) = Len(l)}

InitForm ==
    /\ apiKey = Str("key")
    /\ adapter = EntryAware
    /\ AppIdle
    /\ arg = NoProfile
    /\ out = Null
    /\ DashboardIdle
    /\ FeedbackIdle
    /\ formProfile \in
            {[DEFAULT_PROFILE EXCEPT !.benefits = l] : l \in DuplicateFreeLists}
    /\ formMode = "experienced"

NextForm ==
    \/ \E m \in {"entry", "experienced"} :
            \E field \in InputsOf(m), value \in ParsedInputs :
                ChangeInput(field, value)
    \/ \E newMode \in {"entry", "experienced"} : SwitchMode(newMode)
    \/ \E benefit \in BENEFIT_OPTIONS : ToggleBenefit(benefit)

SpecForm == InitForm /\ [][NextForm]_vars

-----------------------------------------------------------------------------
(* The feedback modal on its own: opened, filled in, submitted, closed and *)
(* reopened in any order, with the POST and the reset timer settling at    *)
(* any time.                                                               *)

\* The stars of the rating, of which the first and the last are clicked.
Stars == 1..5
ClickedStars == {1, 5}

\* What is typed into the inputs of the modal.
TypedEmails == {<<>>, <<" ", "a">>}
TypedTexts == {<<>>, <<"x">>}

InitFeedback ==
    /\ apiKey = Str("key")
    /\ adapter = EntryAware
    /\ AppIdle
    /\ arg = NoProfile
    /\ out = Null
    /\ DashboardIdle
    /\ FormIdle
    /\ FeedbackIdle

NextFeedback ==
    \/ OpenModal
    \/ \E star \in ClickedStars : SetRating(star)
    \/ \E text \in TypedEmails : SetEmail(text)
    \/ \E text \in TypedTexts : SetMissingFields(text)
    \/ \E text \in TypedTexts : SetImprovements(text)
    \/ SubmitFeedback
    \/ \E i \in 1..MaxPosts, outcome \in {"ok", "notOk", "rejected"} :
            FetchSettles(i, outcome)
    \/ \E i \in 1..MaxPosts : ErrorBodySettles(i)
    \/ CloseModal
    \/ ResetTimerFires

SpecFeedback == InitFeedback /\ [][NextFeedback]_vars

-----------------------------------------------------------------------------
(* The payload on its own: handleSubmit on a form filled in with any       *)
(* rating and any short email text.                                        *)

\* Every text of at most MaxLen characters, each a white space or a letter.
EmailTexts == UNION {[1..n -> WhiteSpace \cup {"a"}] : n \in 0..MaxLen}

InitPayload ==
    /\ apiKey = Str("key")
    /\ adapter = EntryAware
    /\ AppIdle
    /\ arg = NoProfile
    /\ out = Null
    /\ DashboardIdle
    /\ FormIdle
    /\ isOpen = TRUE
    /\ step = "form"
    /\ rating \in {0} \cup Stars
    /\ email \in EmailTexts
    /\ missingFields \in TypedTexts
    /\ improvements \in TypedTexts
    /\ inFlight = <<>>
    /\ timers = 0

NextPayload == SubmitFeedback

SpecPayload == InitPayload /\ [][NextPayload]_vars

-----------------------------------------------------------------------------
(* Properties.                                                             *)

Settled == event.op = "settled"

\* C1: when no credential is configured (absent or empty), every
\* analyzeCompensation fails with MISSING_API_KEY and no generateContent
\* request is made: none is outstanding and the settled invocation issued none.
C1_MissingKeyNoRequest ==
    ~Truthy(apiKey) =>
        /\ pending = <<>>
        /\ Settled => /\ event.outcome = Throw("MISSING_API_KEY")
                      /\ event.calls = 0

C1_Witness == apiKey = Undefined /\ Settled /\ error = MsgMissingKey

\* C2: at most one request started by App is outstanding, and while one is,
\* isLoading is set and the form is not offered for submission.
C2_AtMostOneOutstanding ==
    /\ Len(pending) <= 1
    /\ pending # <<>> => isLoading /\ ~SubmitOffered

C2_Witness == Len(pending) = 1 /\ event.op = "reset"

\* C3: with a credential, every invocation issues exactly one generateContent
\* request: one is issued on every submission (nothing is served from an
\* earlier result) and none is added whatever the call settles with.
C3_ExactlyOneRequest ==
    Truthy(apiKey) =>
        /\ \A i \in 1..Len(pending) : pending[i].calls = 1
        /\ event.op = "submitted" =>
                /\ pending # <<>>
                /\ pending[Len(pending)].profile = event.profile
        /\ Settled => event.calls = 1

C3_Witness ==
    /\ Settled
    /\ event.response.kind = "rejected"
    /\ event.calls = 1
    /\ results # Null

\* C4: handleAnalysis turns every outcome into one user-facing state:
\* MISSING_API_KEY into the configuration message, any other throw into the
\* 'Analysis failed' message, a null return into the 'Could not generate
\* analysis' message, a non-null return into results with error left null.
C4_EveryOutcomeConverted ==
    Settled =>
        IF event.outcome.kind = "throw"
        THEN IF event.outcome.message = "MISSING_API_KEY"
             THEN error = MsgMissingKey
             ELSE error = MsgFailed
        ELSE IF event.outcome.value = Null
             THEN error = MsgNoResult
             ELSE results = event.outcome.value /\ error = Null

\* The settled response carried text that is valid JSON.
ParsedResponse ==
    /\ Settled
    /\ event.response.kind = "response"
    /\ Truthy(event.response.text)
    /\ JSONParse(event.response.text.toks).ok

\* C5: a response whose text is valid JSON but lacks a required field of the
\* declared schema makes analyzeCompensation fail instead of returning the
\* parsed value.
C5_MissingFieldRejected ==
    (/\ ParsedResponse
     /\ JSONParse(event.response.text.toks).v.t = "object"
     /\ ~Conforms(adapter, JSONParse(event.response.text.toks).v))
        => event.outcome.kind = "throw"

\* C6: a response whose text is the JSON of a document matching the schema
\* makes analyzeCompensation return exactly that document, and App stores
\* exactly it in results.
C6_RoundTrip ==
    \A d \in ServiceDocs :
        (/\ Settled
         /\ Conforms(adapter, d)
         /\ event.response = [kind |-> "response", text |-> Text(Stringify(d))])
            => /\ event.outcome = Return(d)
               /\ results = d

C6_Witness ==
    /\ Settled
    /\ event.response = [kind |-> "response", text |-> Text(Stringify(InsightsB))]
    /\ results = InsightsB

\* C7: when the service returns no text, analyzeCompensation returns null and
\* does not throw, and the caller reports it with the message kept for the
\* empty outcome, not with a failure message.
C7_NoTextIsNull ==
    (/\ Settled
     /\ event.response.kind = "response"
     /\ ~Truthy(event.response.text))
        => /\ event.outcome = Return(Null)
           /\ error = MsgNoResult

C7_Witness ==
    /\ Settled
    /\ event.response = [kind |-> "response", text |-> Undefined]
    /\ event.outcome = Return(Null)

\* The settled analysis failed or had no text.
FailedOrEmpty ==
    /\ Settled
    /\ \/ event.outcome.kind = "throw"
       \/ /\ event.response.kind = "response"
          /\ ~Truthy(event.response.text)

\* C8: after an analysis that fails or returns no text the app shows the form
\* with the corresponding message, and no results dashboard.
C8_FailureShowsForm ==
    FailedOrEmpty =>
        /\ View = "form"
        /\ error = IF event.outcome.kind = "return" THEN MsgNoResult
                   ELSE IF event.outcome.message = "MISSING_API_KEY"
                        THEN MsgMissingKey
                        ELSE MsgFailed

\* A numeric field as the adapter is meant to count it: missing or NaN as 0.
Counted(val) == IF val.t = "number" THEN val.v ELSE 0

\* C9: the normalised total is 12 * (base + incentive + overtime) + profit
\* share + festival bonus + provident fund + gratuity, each missing or NaN
\* field counted as 0; it is a number, never NaN.
C9_TotalComp ==
    out # Null =>
        out.totalComp =
            Num(12 * (Counted(arg.monthlyBaseSalary)
                      + Counted(arg.monthlyIncentive)
                      + Counted(arg.monthlyOvertime))
                + Counted(arg.annualProfitShare)
                + Counted(arg.festivalBonus)
                + Counted(arg.providentFund)
                + Counted(arg.gratuity))

C9_Witness ==
    /\ out # Null
    /\ arg.monthlyIncentive = Num(MaxAmount)
    /\ arg.monthlyBaseSalary = NaN
    /\ arg.gratuity = NaN
    /\ out.totalComp = Num(12 * MaxAmount)

\* C10: every value interpolated into a numeric slot of the outgoing prompt
\* is a number: never NaN, undefined or null.
C10_PromptNumbersNormalised ==
    out # Null =>
        \A x \in DOMAIN out.request.contents.slots \cap NumericSlots :
            out.request.contents.slots[x].t = "number"

\* C11: the request carries the entry-level template exactly when
\* profile.isEntryLevel is truthy, and an experienced template otherwise.
C11_TemplateByEntryFlag ==
    (out # Null /\ ~out.thrown) =>
        /\ out.request.contents.template = "entry" <=> Truthy(arg.isEntryLevel)
        /\ out.request.contents.template \in {"entry", "experienced", "breakdown"}

\* The fields of the mode that profile is not in.
InactiveFields(profile) ==
    IF Truthy(profile.isEntryLevel)
    THEN CompensationFields \cup {"yearsExperience"}
    ELSE {"expectedSalary", "education", "projectDetails", "userSkills"}

\* C12: a Profile that differs from the submitted one in a field of the
\* inactive mode only yields the same request.
C12_InactiveFieldsIgnored ==
    (out # Null /\ ~out.thrown) =>
        \A x \in InactiveFields(arg), v \in NumericValues \cup {Str("other")} :
            analyzeCompensationCall(apiKey, adapter, handleChange(arg, x, v)).request
                = out.request

\* C13: the growth percentage is 100 * (next - current) / current when the
\* current annual total is positive and 100 * (next - market) / market when
\* it is zero; 100000 and 150000 give 50, and 0 with 80000 and 120000 give 50.
C13_GrowthPercentage ==
    derived # Null =>
        LET cur == derived.currentAnnual.v
            market == targetEntryAnnual(props.results).v
            next == nextAnnualMedian(props.results).v
        IN  /\ cur > 0 =>
                derived.growthPercentage = Quotient(100 * (next - cur), cur)
            /\ (cur = 0 /\ market # 0) =>
                derived.growthPercentage = Quotient(100 * (next - market), market)
            /\ (cur = 100000 /\ next = 150000) =>
                derived.growthPercentage = Num(50)
            /\ (cur = 0 /\ market = 80000 /\ next = 120000) =>
                derived.growthPercentage = Num(50)

\* C14: the divisor of the growth percentage is never zero.
C14_DivisorNonZero == derived # Null => derived.divisor # Num(0)

\* The salary ranges an Insights value holds, where it holds them.
RangesOf(v) ==
    IF v.t # "object" THEN {}
    ELSE (IF "marketAnalysis" \in DOMAIN v.o
             /\ v.o["marketAnalysis"].t = "object"
             /\ "currentRoleMarketValue" \in DOMAIN v.o["marketAnalysis"].o
          THEN {v.o["marketAnalysis"].o["currentRoleMarketValue"]} ELSE {})
         \cup
         (IF "nextCareerMove" \in DOMAIN v.o
             /\ v.o["nextCareerMove"].t = "object"
             /\ "salaryRange" \in DOMAIN v.o["nextCareerMove"].o
          THEN {v.o["nextCareerMove"].o["salaryRange"]} ELSE {})

\* 0 <= min <= median <= max
Ordered(r) ==
    /\ 0 <= r.o["min"].v
    /\ r.o["min"].v <= r.o["median"].v
    /\ r.o["median"].v <= r.o["max"].v

\* C15: every salary range of the Insights value analyzeCompensation returned
\* and of the one App holds satisfies 0 <= min <= median <= max.
C15_RangesOrdered ==
    /\ \A r \in RangesOf(results) : Ordered(r)
    /\ (Settled /\ event.outcome.kind = "return") =>
            \A r \in RangesOf(event.outcome.value) : Ordered(r)

\* C16: the dashboard's current annual total is the adapter's totalComp for
\* the same Profile.
C16_SameAnnualTotal ==
    derived # Null => derived.currentAnnual = Totals(props.userProfile).totalComp

C16_Witness ==
    /\ derived # Null
    /\ props.userProfile.monthlyOvertime = Num(1)
    /\ props.userProfile.monthlyBaseSalary = NaN
    /\ props.userProfile.gratuity = NaN
    /\ derived.currentAnnual = Num(12)

\* The symbol of each currency code of the table.
SymbolTable ==
    [c \in {"USD", "EUR", "GBP", "BDT", "INR"} |->
        CASE c = "USD" -> "$"
          [] c = "EUR" -> "€"
          [] c = "GBP" -> "£"
          [] c = "BDT" -> "৳"
          [] c = "INR" -> "₹"]

\* C17: the currency symbol is the table's symbol for USD, EUR, GBP, BDT and
\* INR and '$' for every other code and for a missing one, whatever else the
\* props hold.
C17_CurrencySymbol ==
    derived # Null =>
        LET code == props.userProfile.currency
        IN  derived.currencySymbol =
                IF code.t = "string" /\ code.s \in DOMAIN SymbolTable
                THEN SymbolTable[code.s]
                ELSE "$"

C17_Witness ==
    /\ derived # Null
    /\ props.userProfile.currency = Str("BDT")
    /\ derived.currencySymbol = "৳"
    /\ dashboard = DashboardPlain

\* C18: once an invocation of handleAnalysis has settled isLoading is false,
\* and isLoading is true only while a request is outstanding.
C18_LoadingCleared ==
    /\ Settled => ~isLoading
    /\ isLoading => pending # <<>>

C18_Witness ==
    /\ Settled
    /\ event.outcome.kind = "throw"
    /\ event.response.kind = "rejected"
    /\ ~isLoading

\* C19: a step of handleReset leaves results, userProfile and error null and
\* isLoading as it was.
C19_ResetFrame ==
    [][event'.op = "reset" =>
        /\ results' = Null
        /\ userProfile' = Null
        /\ error' = Null
        /\ isLoading' = isLoading]_vars

C19_Witness ==
    /\ event.op = "reset"
    /\ isLoading
    /\ userProfile = Null
    /\ results = Null
    /\ error = Null

\* C20: no label occurs twice in the benefits list, a toggle of a label that
\* is not in the list adds that label and nothing else, and a toggle of a
\* label that is in the list removes that label and nothing else.
C20_BenefitsDuplicateFree ==
    /\ [](Cardinality(Labels(formProfile.benefits)) = Len(formProfile.benefits))
    /\ [][event'.op = "toggleBenefit" =>
            Labels(formProfile'.benefits) =
                IF event'.benefit \in Labels(formProfile.benefits)
                THEN Labels(formProfile.benefits) \ {event'.benefit}
                ELSE Labels(formProfile.benefits) \cup {event'.benefit}]_vars

C20_Witness ==
    /\ event.op = "toggleBenefit"
    /\ event.benefit \notin Labels(formProfile.benefits)
    /\ Len(formProfile.benefits) = 2

\* C22: whenever App holds results it holds the userProfile they were
\* requested for.
C22_ResultsHaveProfile == results # Null => userProfile # Null

\* C23: when a settling request stores its Insights, the userProfile App holds
\* is the one that request was submitted with; no request submitted before a
\* reset stores its Insights after it.
C23_ResultsOfCurrentProfile ==
    [][(event'.op = "settled"
        /\ event'.outcome.kind = "return"
        /\ Truthy(event'.outcome.value)) =>
            /\ results' = event'.outcome.value
            /\ userProfile' = event'.profile]_vars

\* The experienced-mode amounts a switch to 'entry' leaves as they are.
LeftoverFields ==
    {"monthlyIncentive", "monthlyOvertime", "annualProfitShare",
     "festivalBonus", "providentFund", "gratuity"}

\* C24: for an entry-level Profile the growth percentage is taken over the
\* market median and does not change with any of the leftover amounts.
C24_EntryGrowthIgnoresLeftovers ==
    (derived # Null /\ Truthy(props.userProfile.isEntryLevel)) =>
        /\ derived.divisor = targetEntryAnnual(props.results)
        /\ \A x \in LeftoverFields, v \in NumericValues :
                growthPercentage(dashboard,
                                 handleChange(props.userProfile, x, v),
                                 props.results)
                    = derived.growthPercentage

\* C25: the form's mode is 'entry' exactly when its Profile's entry-level
\* flag is true.
C25_ModeMatchesFlag ==
    formMode = "entry" <=> formProfile.isEntryLevel = Bool(TRUE)

C25_Witness ==
    /\ formMode = "entry"
    /\ formProfile.isEntryLevel = Bool(TRUE)
    /\ event.op = "handleChange"
    /\ formProfile.expectedSalary = Num(1)

\* The Profile fields a switch to newMode may change.
SwitchedFields(newMode) ==
    IF newMode = "entry"
    THEN {"isEntryLevel", "monthlyBaseSalary", "yearsExperience"}
    ELSE {"isEntryLevel"}

InTrack(pos) ==
    /\ Finite(pos)
    /\ 0 <= Numer(pos)
    /\ Numer(pos) <= 100 * Denom(pos)

\* C30: the median, 25th, 75th and current markers of both spectra are placed
\* at a number from 0 to 100.
C30_MarkersInTrack ==
    derived # Null =>
        \A s \in {derived.spectrumCurrent, derived.spectrumFuture} :
            \A marker \in DOMAIN s : InTrack(s[marker])

\* C21: a submission takes step from 'form' to 'submitting', and when its
\* request has settled, with success, a status that is not ok or a rejection,
\* step is 'success'.
C21_SubmissionEndsInSuccess ==
    [][/\ event'.op = "handleSubmit" => (step = "form" /\ step' = "submitting")
       /\ event'.op = "feedbackSettled" => step' = "success"]_vars

C21_Witness ==
    /\ event.op = "feedbackSettled"
    /\ event.outcome = "rejected"
    /\ step = "success"
    /\ isOpen

\* The modal as it is first shown.
FeedbackCleared ==
    /\ step = "form"
    /\ rating = 0
    /\ email = <<>>
    /\ missingFields = <<>>
    /\ improvements = <<>>

\* C27: whenever the modal is shown again it is in its initial state, and
\* while it is shown in that state nothing but the user changes it: no timer
\* and no settling request.
C27_ReopenedCleared ==
    [][/\ event'.op = "open" => FeedbackCleared'
       /\ (/\ isOpen
           /\ FeedbackCleared
           /\ event'.op \in {"resetTimer", "responseNotOk", "feedbackSettled"})
            => FeedbackCleared']_vars

\* C28: at most one POST is in flight, and while a submission is outstanding
\* the modal is in step 'submitting'.
C28_OnePostInFlight ==
    /\ Cardinality({i \in 1..Len(inFlight) : inFlight[i] = "fetch"}) <= 1
    /\ inFlight # <<>> => step = "submitting"

\* The text is white space only.
Blank(text) == \A i \in 1..Len(text) : text[i] \in WhiteSpace

\* C29: the payload has the keys rating, missing_fields, improvements and
\* _subject and one more: email, holding the entered email without the white
\* space around it, when the entered email is not blank, and sender_status,
\* holding 'Anonymous User', when it is.
C29_PayloadKeys ==
    event.op = "handleSubmit" =>
        LET body == event.body
        IN  /\ {"rating", "missing_fields", "improvements", "_subject"}
                    \subseteq DOMAIN body
            /\ Cardinality(DOMAIN body) = 5
            /\ body.rating = rating
            /\ body.missing_fields = missingFields
            /\ body.improvements = improvements
            /\ body["_subject"].rating = rating
            /\ IF Blank(email)
               THEN /\ "sender_status" \in DOMAIN body
                    /\ body.sender_status = "Anonymous User"
               ELSE /\ "email" \in DOMAIN body
                    /\ body.email # <<>>
                    /\ body.email[1] \notin WhiteSpace
                    /\ body.email[Len(body.email)] \notin WhiteSpace
                    /\ \E lead, trail \in 0..Len(email) :
                            /\ Blank(SubSeq(email, 1, lead))
                            /\ Blank(SubSeq(email, Len(email) - trail + 1, Len(email)))
                            /\ body.email = SubSeq(email, lead + 1, Len(email) - trail)

C29_Witness ==
    /\ event.op = "handleSubmit"
    /\ email = <<" ", "a", "\t">>
    /\ event.body.email = <<"a">>
    /\ rating = 5

====
